---- MODULE Spec2Model ----
(***************************************************************************)
(* coc-pyright: the linter output pipeline (features/linters/baseLinter.ts) *)
(* and the refactor worker session (features/refactor.ts).                  *)
(*                                                                          *)
(* Text is modelled as sequences of one-character strings, so that the      *)
(* regular expression of baseLinter.ts and the line splitting of both       *)
(* files are computed on characters, as the code computes them.             *)
(***************************************************************************)
EXTENDS Integers, Sequences, FiniteSets, TLC

(***************************************************************************)
(* Bounds of the model.                                                     *)
(***************************************************************************)
\* longest batch of linter output lines drawn for parseMessages
MaxBatch == 3
\* largest python.linting.maxNumberOfProblems drawn (0 .. MaxProblems)
MaxProblems == 2
\* largest column offset a linter is constructed with (0 .. MaxOffset)
MaxOffset == 2

(***************************************************************************)
(* State.                                                                   *)
(***************************************************************************)
VARIABLES
  pMode,     \* "line": a call of parseLine; "batch": a call of parseMessages
  pFields,   \* line mode: the fields of the message the line was printed for
  pLines,    \* batch mode: the lines the tool printed
  pRegex,    \* the pattern
  pOffset,   \* columnOffset
  pMax,      \* pythonSettings.linting.maxNumberOfProblems
  pDone,     \* the call has returned
  pResult    \* what it returned

pvars == <<pMode, pFields, pLines, pRegex, pOffset, pMax, pDone, pResult>>

VARIABLES
  lEnabled,     \* [linter -> info.isEnabled(uri)]
  lExecutable,  \* [linter -> "found" | "missing"]: whether the executable exists
  lTool,        \* [linter -> the lines the tool prints when it runs to its end]
  lMax,         \* pythonSettings.linting.maxNumberOfProblems (shared settings)
  lpc,          \* [linter -> "idle" | "exec" | "returned" | "threw"]: position of run
  lToken,       \* [linter -> its cancellation token is cancelled]
  lExecs,       \* [linter -> number of calls of PythonExecutionService.exec]
  lResult,      \* [linter -> the messages run returned]
  outputChannel \* the shared output channel: entries <<linter, kind>>

lvars == <<lEnabled, lExecutable, lTool, lMax, lpc, lToken, lExecs, lResult, outputChannel>>

\* One RefactorProxy (refactor.ts 10-189), the calls made on it and the
\* subprocesses it spawned.
VARIABLES
  process,             \* _process: 0 for undefined, else the number of the subprocess
  killed,              \* the subprocesses dispose has killed
  spawned,             \* number of subprocesses spawned by initialize
  subs,                \* number of open subscriptions to subprocess output
  previousOutData,     \* _previousOutData
  previousStdErrData,  \* _previousStdErrData
  startedSuccessfully, \* _startedSuccessfully
  commandResolve,      \* _commandResolve: 0 for undefined, else the call whose promise it resolves
  commandReject,       \* _commandReject: 0 for unassigned, else the call whose promise it rejects
  initialized,         \* initialized: 0 for unassigned, else the call whose initialize created it
  deferred,            \* [call -> state of the Deferred its initialize created]
  cpc,                 \* [call -> position of the public method and its sendCommand]
  cval,                \* [call -> the value its promise is resolved with: <<>> is undefined]
  creason,             \* [call -> the reason its promise is rejected with]
  stdin,               \* the command lines written to subprocess stdin
  stdoutRest,          \* what the subprocesses have still to print on stdout
  stderrRest,          \* what the subprocesses have still to print on stderr
  uncaught,            \* an exception left a subscriber callback
  received             \* the stdout text given to onData since a continuation was registered

svars ==
  <<process, killed, spawned, subs, previousOutData, previousStdErrData, startedSuccessfully,
    commandResolve, commandReject, initialized, deferred, cpc, cval, creason, stdin,
    stdoutRest, stderrRest, uncaught, received>>

\* One refactor operation (refactor.ts 219-373): an entry point extractVariable,
\* extractMethod or addImport called on a document, with the proxy it creates.
VARIABLES
  oKind,      \* the entry point: "extractVariable" | "extractMethod" | "addImport"
  oDoc,       \* workspace.getDocument(document.uri) is a document
  oModified,  \* doc.buffer.getOption('modified'): 0 or 1
  oDirty,     \* doc.dirty
  oRope,      \* what isModuleInstalled('rope') resolves with
  oWriteOk,   \* the nvim command `write` succeeds
  oDiff,      \* the diff text of a response: "empty" | "patch" | "untranslatable" | "unappliable"
  oLines,     \* the lines of the document after the edits were applied
  oStart,     \* changeStartsAtLine: the least start line of the edits, or -1
  opc,        \* position of the entry point
  oWrites,    \* number of `write` commands issued
  oEdits,     \* number of successful doc.applyEdits
  oJumps,     \* the position of each workspace.jumpTo call, in order
  oLog,       \* entries appended to the output channel
  oNotices,   \* messages shown with window.showWarningMessage / showErrorMessage
  oResult     \* how the promise of the entry point settled

\* what the operation is called with
oIn == <<oKind, oDoc, oModified, oDirty, oRope>>

\* what its collaborators answered
oEnv == <<oWriteOk, oDiff, oLines, oStart>>

ovars == <<oIn, oEnv, opc, oWrites, oEdits, oJumps, oLog, oNotices, oResult>>

vars == <<pvars, lvars, svars, ovars>>

(***************************************************************************)
(* Characters.                                                              *)
(***************************************************************************)
LF == "\n"
CR == "\r"

Digits == {"0", "1", "2", "3", "4", "5", "6", "7", "8", "9"}

Letters ==
  {"a", "b", "c", "d", "e", "f", "g", "h", "i", "j", "k", "l", "m",
   "n", "o", "p", "q", "r", "s", "t", "u", "v", "w", "x", "y", "z",
   "A", "B", "C", "D", "E", "F", "G", "H", "I", "J", "K", "L", "M",
   "N", "O", "P", "Q", "R", "S", "T", "U", "V", "W", "X", "Y", "Z"}

\* \w of a JavaScript regular expression
WordChars == Letters \cup Digits \cup {"_"}

\* the characters `.` does not match
LineTerminators == {LF, CR}

Max0(n) == IF n > 0 THEN n ELSE 0

Take(s, n) == IF n >= Len(s) THEN s ELSE IF n <= 0 THEN <<>> ELSE SubSeq(s, 1, n)

Drop(s, n) == IF n >= Len(s) THEN <<>> ELSE SubSeq(s, n + 1, Len(s))

(***************************************************************************)
(* String.prototype.split(/\r?\n/g): the pieces between the terminators     *)
(* LF and CR LF; a CR that no LF follows stays in its piece.                *)
(***************************************************************************)
RECURSIVE SplitFrom(_, _, _)
SplitFrom(s, i, cur) ==
  IF i > Len(s) THEN <<cur>>
  ELSE LET crlf == s[i] = CR /\ i < Len(s) /\ s[i + 1] = LF
           term == s[i] = LF \/ crlf
       IN  (IF term THEN <<cur>> ELSE <<>>)
             \o SplitFrom(s, IF crlf THEN i + 2 ELSE i + 1,
                          IF term THEN <<>> ELSE Append(cur, s[i]))

SplitCRLF(s) == SplitFrom(s, 1, <<>>)

\* splitLines(str, {removeEmptyEntries, trim: false}) of ../common
splitLines(str, removeEmptyEntries) ==
  IF removeEmptyEntries
  THEN SelectSeq(SplitCRLF(str), LAMBDA l : Len(l) > 0)
  ELSE SplitCRLF(str)

\* The default pattern REGEX of baseLinter.ts has five named groups and a tail:
\*   line \d+  ","  column -?\d+  ","  type \w+  ","  code \w+\d+  ":"
\*   message: any run of characters that are no line terminator
\*   tail: an optional CR, then LF or the end of the input.
\* Every quantifier is followed by a character outside its class, so the
\* greedy match from a start position is the maximal run of each class.
\* the index just past the maximal run, starting at i, of characters that are
\* in C (inside) or not in C (~inside)
RunEnd(s, i, C, inside) ==
  CHOOSE j \in i .. (Len(s) + 1) :
    /\ \A k \in i .. (j - 1) : (s[k] \in C) = inside
    /\ (j = Len(s) + 1 \/ (s[j] \in C) # inside)

\* the character at i is c
At(s, i, c) == i >= 1 /\ i <= Len(s) /\ s[i] = c

Piece(s, from, to) == IF to < from THEN <<>> ELSE SubSeq(s, from, to)

\* the groups of a match of REGEX that starts at position i, or no match:
\* <<>> for no match, <<groups>> for a match
MatchAt(s, i) ==
  LET n  == Len(s)
      a  == RunEnd(s, i, Digits, TRUE)                 \* the "," after line
      cs == IF At(s, a + 1, "-") THEN a + 2 ELSE a + 1 \* first digit of column
      b  == RunEnd(s, cs, Digits, TRUE)                \* the "," after column
      c  == RunEnd(s, b + 1, WordChars, TRUE)          \* the "," after type
      d  == RunEnd(s, c + 1, WordChars, TRUE)          \* the ":" after code
      e  == RunEnd(s, d + 1, LineTerminators, FALSE)   \* the end of message
  IN  IF /\ a > i /\ At(s, a, ",")
         /\ cs <= n /\ b > cs /\ At(s, b, ",")
         /\ c > b + 1 /\ At(s, c, ",")
         /\ d > c + 2 /\ s[d - 1] \in Digits /\ At(s, d, ":")
         /\ \/ e = n + 1
            \/ At(s, e, LF)
            \/ At(s, e, CR) /\ (e = n \/ At(s, e + 1, LF))
      THEN << [line    |-> Piece(s, i, a - 1),
               column  |-> Piece(s, a + 1, b - 1),
               type    |-> Piece(s, b + 1, c - 1),
               code    |-> Piece(s, c + 1, d - 1),
               message |-> Piece(s, d + 1, e - 1)] >>
      ELSE <<>>

\* the compiled pattern: the default REGEX, or a pattern namedRegexp rejects
RegexKinds == {"default", "invalid"}

\* matchNamedRegEx: exec finds the leftmost match; compiling an invalid
\* pattern raises.  [thrown, groups]: groups is <<>> for undefined.
matchNamedRegEx(data, regex) ==
  IF regex = "invalid" THEN [thrown |-> TRUE, groups |-> <<>>]
  ELSE LET at == [i \in 1 .. Len(data) |-> MatchAt(data, i)]
           starts == {i \in 1 .. Len(data) : at[i] # <<>>}
       IN  IF starts = {} THEN [thrown |-> FALSE, groups |-> <<>>]
           ELSE [thrown |-> FALSE,
                 groups |-> at[CHOOSE i \in starts : \A j \in starts : i <= j]]

DigitValue(c) ==
  CASE c = "0" -> 0 [] c = "1" -> 1 [] c = "2" -> 2 [] c = "3" -> 3 [] c = "4" -> 4
    [] c = "5" -> 5 [] c = "6" -> 6 [] c = "7" -> 7 [] c = "8" -> 8 [] c = "9" -> 9

RECURSIVE DigitsToNat(_)
DigitsToNat(ds) ==
  IF ds = <<>> THEN 0
  ELSE 10 * DigitsToNat(SubSeq(ds, 1, Len(ds) - 1)) + DigitValue(ds[Len(ds)])

\* Number(text) for the texts \d+ and -?\d+ capture (never NaN)
Number(txt) ==
  IF txt # <<>> /\ Head(txt) = "-" THEN 0 - DigitsToNat(Tail(txt)) ELSE DigitsToNat(txt)

\* a parseLine that clamps negative columns only and subtracts the offset from 0
ColumnUnclampedZero(column, colOffset) == IF column < 0 THEN 0 ELSE column - colOffset

\* the column of the returned message (baseLinter.ts line 47); Number of a
\* captured column is never NaN
Column(column, colOffset) == IF column <= 0 THEN 0 ELSE column - colOffset

\* parseLine: [thrown, msg], msg is <<>> for undefined and <<message>> otherwise
parseLine(line, regex, linterID, colOffset) ==
  LET match == matchNamedRegEx(line, regex)
  IN  IF match.thrown THEN [thrown |-> TRUE, msg |-> <<>>]
      ELSE IF match.groups = <<>> THEN [thrown |-> FALSE, msg |-> <<>>]
      ELSE LET g == match.groups[1]
           IN  [thrown |-> FALSE,
                msg |-> << [code     |-> g.code,
                            message  |-> g.message,
                            column   |-> Column(Number(g.column), colOffset),
                            line     |-> Number(g.line),
                            type     |-> g.type,
                            provider |-> linterID] >>]

\* parseMessages (baseLinter.ts 128-151): the loop over the lines of the
\* output from line k on.  [messages, failed]: failed are the lines the catch
\* block logged.
RECURSIVE parseLoop(_, _, _, _, _, _, _, _)
parseLoop(outputLines, k, messages, failed, regEx, linterID, columnOffset, maxNumberOfProblems) ==
  IF k > Len(outputLines) THEN [messages |-> messages, failed |-> failed]
  ELSE LET r == parseLine(outputLines[k], regEx, linterID, columnOffset)
           pushed == messages \o r.msg
           logged == IF r.thrown THEN Append(failed, outputLines[k]) ELSE failed
       IN  IF r.msg # <<>> /\ Len(pushed) >= maxNumberOfProblems
           THEN [messages |-> pushed, failed |-> logged]       \* break
           ELSE parseLoop(outputLines, k + 1, pushed, logged,
                          regEx, linterID, columnOffset, maxNumberOfProblems)

parseMessages(output, regEx, linterID, columnOffset, maxNumberOfProblems) ==
  parseLoop(splitLines(output, FALSE), 1, <<>>, <<>>,
            regEx, linterID, columnOffset, maxNumberOfProblems)

(***************************************************************************)
(* Inputs of the line parser: a message's fields, each with the text a      *)
(* linter prints for it, and the line a linter prints for the message.      *)
(***************************************************************************)
LineFields ==
  { [txt |-> <<"1">>, val |-> 1],
    [txt |-> <<"1", "2">>, val |-> 12],
    [txt |-> <<"0", "7">>, val |-> 7] }

ColumnFields ==
  { [txt |-> <<"0">>, val |-> 0],
    [txt |-> <<"1">>, val |-> 1],
    [txt |-> <<"2">>, val |-> 2],
    [txt |-> <<"3">>, val |-> 3],
    [txt |-> <<"1", "0">>, val |-> 10],
    [txt |-> <<"-", "1">>, val |-> 0 - 1],
    [txt |-> <<"-", "0">>, val |-> 0],
    [txt |-> <<"-", "1", "2">>, val |-> 0 - 12] }

TypeFields == { <<"E">>, <<"E", "r", "r", "o", "r">>, <<"W", "_", "1">> }

CodeFields == { <<"E", "1">>, <<"E", "5", "0", "1">>, <<"1", "1">> }

MessageFields ==
  { <<>>,
    <<"m">>,
    <<"a", ":", "b">>,
    <<"1", ",", "2", ",", "E", ",", "E", "1", ":", "x">>,
    <<"l", "i", "n", "e", " ", "t", "o", "o", " ", "l", "o", "n", "g">> }

\* text before the match (the pattern is not anchored)
Prefixes == { <<>>, <<":", " ">> }

\* the optional carriage return the pattern allows before the end
Tails == { <<>>, <<CR>> }

LinterIds == {"pylint", "flake8"}

\* the line a linter prints for a message
Format(f) ==
  f.prefix \o f.line.txt \o <<",">> \o f.column.txt \o <<",">> \o f.type \o <<",">>
    \o f.code \o <<":">> \o f.message \o f.tail

Fields ==
  [prefix : Prefixes, line : LineFields, column : ColumnFields, type : TypeFields,
   code : CodeFields, message : MessageFields, tail : Tails]

\* lines of a batch: two matching lines, one of them ending in CR, a line
\* with a code that has no digit, a line of other text, and an empty line
BatchLines ==
  { <<"1", ",", "3", ",", "E", ",", "E", "1", ":", "m">>,
    <<"2", ",", "-", "1", ",", "W", ",", "W", "2", ":", CR>>,
    <<"1", ",", "1", ",", "E", ",", "E", ":", "m">>,
    <<"x">>,
    <<>> }

BoundedSeq(S, n) == UNION { [1 .. k -> S] : k \in 0 .. n }

\* the lines joined by LF
RECURSIVE Join(_)
Join(ls) ==
  IF ls = <<>> THEN <<>>
  ELSE IF Len(ls) = 1 THEN ls[1]
  ELSE ls[1] \o <<LF>> \o Join(Tail(ls))

(***************************************************************************)
(* The parser as a pure function: a call of parseLine on one line, or of    *)
(* parseMessages on a batch.                                                *)
(***************************************************************************)
NoFields ==
  [prefix |-> <<>>, line |-> [txt |-> <<>>, val |-> 0], column |-> [txt |-> <<>>, val |-> 0],
   type |-> <<>>, code |-> <<>>, message |-> <<>>, tail |-> <<>>]

NoResult == [messages |-> <<>>, failed |-> <<>>]

ParseInit ==
  /\ pDone = FALSE
  /\ pResult = NoResult
  /\ pOffset \in 0 .. MaxOffset
  /\ \/ /\ pMode = "line"
        /\ pFields \in Fields
        /\ pLines = <<>>
        /\ pRegex = "default"
        /\ pMax = 0
     \/ /\ pMode = "batch"
        /\ pFields = NoFields
        /\ pLines \in BoundedSeq(BatchLines, MaxBatch)
        /\ pRegex \in RegexKinds
        /\ pMax \in 0 .. MaxProblems

ParseIdle ==
  /\ pMode = "off" /\ pFields = NoFields /\ pLines = <<>> /\ pRegex = "default"
  /\ pOffset = 0 /\ pMax = 0 /\ pDone = FALSE /\ pResult = NoResult

\* parseLine(line, REGEX, linterID, colOffset)
ParseLineCall ==
  /\ pMode = "line" /\ ~pDone
  /\ pDone' = TRUE
  /\ pResult' = [messages |-> parseLine(Format(pFields), pRegex, "pylint", pOffset).msg,
                 failed |-> <<>>]
  /\ UNCHANGED <<pMode, pFields, pLines, pRegex, pOffset, pMax>>
  /\ UNCHANGED <<lvars, svars, ovars>>

\* parseMessages(output, document, token, regEx)
ParseMessagesCall ==
  /\ pMode = "batch" /\ ~pDone
  /\ pDone' = TRUE
  /\ pResult' = parseMessages(Join(pLines), pRegex, "pylint", pOffset, pMax)
  /\ UNCHANGED <<pMode, pFields, pLines, pRegex, pOffset, pMax>>
  /\ UNCHANGED <<lvars, svars, ovars>>

ParseNext == ParseLineCall \/ ParseMessagesCall

(***************************************************************************)
(* BaseLinter.run (baseLinter.ts 102-126): the linters of LinterIds run      *)
(* concurrently on one document, each with its own cancellation token.  The *)
(* output channel and the settings are shared.                              *)
(***************************************************************************)
\* longest output (in lines) a tool prints in a concurrent run
MaxRunLines == 1

\* columnOffset of the BaseLinter constructor when none is given
DefaultColumnOffset == 0

\* lines a tool prints in a concurrent run
RunLines ==
  { <<"1", ",", "3", ",", "E", ",", "E", "1", ":", "m">>,
    <<"2", ",", "-", "1", ",", "W", ",", "W", "2", ":", CR>>,
    <<"x">> }

LintInit ==
  /\ lEnabled \in [LinterIds -> BOOLEAN]
  /\ lExecutable \in [LinterIds -> {"found", "missing"}]
  /\ lTool \in [LinterIds -> BoundedSeq(RunLines, MaxRunLines)]
  /\ lMax \in 0 .. MaxProblems
  /\ lpc = [l \in LinterIds |-> "idle"]
  /\ lToken = [l \in LinterIds |-> FALSE]
  /\ lExecs = [l \in LinterIds |-> 0]
  /\ lResult = [l \in LinterIds |-> <<>>]
  /\ outputChannel = <<>>

LintIdle ==
  /\ lEnabled = [l \in LinterIds |-> FALSE]
  /\ lExecutable = [l \in LinterIds |-> "found"]
  /\ lTool = [l \in LinterIds |-> <<>>]
  /\ lMax = 0
  /\ lpc = [l \in LinterIds |-> "off"]
  /\ lToken = [l \in LinterIds |-> FALSE]
  /\ lExecs = [l \in LinterIds |-> 0]
  /\ lResult = [l \in LinterIds |-> <<>>]
  /\ outputChannel = <<>>

Prefixes_(s) == { Take(s, n) : n \in 0 .. Len(s) }

\* PythonExecutionService.exec(executionInfo, {token}): the stdout it resolves
\* with.  The whole output of the tool, or, when the token is cancelled and
\* the process is terminated, what the tool had printed by then.
ExecStdout(l) ==
  IF lToken[l] THEN Prefixes_(Join(lTool[l])) ELSE {Join(lTool[l])}

\* a run that does not look at isEnabled
RunStartUnchecked(l) ==
  /\ lpc[l] = "idle"
  /\ lpc' = [lpc EXCEPT ![l] = "exec"]
  /\ outputChannel' = Append(outputChannel, <<l, "run">>)
  /\ lExecs' = [lExecs EXCEPT ![l] = @ + 1]
  /\ UNCHANGED <<lResult, lEnabled, lExecutable, lTool, lMax, lToken>>
  /\ UNCHANGED <<pvars, svars, ovars>>

\* run, up to its await of exec: the enablement check, the invocation log and
\* the call of exec
RunStart(l) ==
  /\ lpc[l] = "idle"
  /\ IF ~lEnabled[l]
     THEN /\ lpc' = [lpc EXCEPT ![l] = "returned"]
          /\ lResult' = [lResult EXCEPT ![l] = <<>>]
          /\ UNCHANGED <<lExecs, outputChannel>>
     ELSE /\ lpc' = [lpc EXCEPT ![l] = "exec"]
          /\ outputChannel' = Append(outputChannel, <<l, "run">>)
          /\ lExecs' = [lExecs EXCEPT ![l] = @ + 1]
          /\ UNCHANGED lResult
  /\ UNCHANGED <<lEnabled, lExecutable, lTool, lMax, lToken>>
  /\ UNCHANGED <<pvars, svars, ovars>>

\* the caller cancels the token of one run
Cancel(l) ==
  /\ lpc[l] \in {"idle", "exec"}
  /\ ~lToken[l]
  /\ lToken' = [lToken EXCEPT ![l] = TRUE]
  /\ UNCHANGED <<lEnabled, lExecutable, lTool, lMax, lpc, lExecs, lResult, outputChannel>>
  /\ UNCHANGED <<pvars, svars, ovars>>

\* a run without the catch block: the rejection of exec reaches the caller
ExecFailsPropagates(l) ==
  /\ lpc[l] = "exec"
  /\ lExecutable[l] = "missing"
  /\ lpc' = [lpc EXCEPT ![l] = "threw"]
  /\ UNCHANGED <<lEnabled, lExecutable, lTool, lMax, lToken, lExecs, lResult, outputChannel>>
  /\ UNCHANGED <<pvars, svars, ovars>>

\* exec rejects (the executable does not exist): the catch block of run
ExecFails(l) ==
  /\ lpc[l] = "exec"
  /\ lExecutable[l] = "missing"
  /\ outputChannel' = Append(outputChannel, <<l, "failed">>)
  /\ lResult' = [lResult EXCEPT ![l] = <<>>]
  /\ lpc' = [lpc EXCEPT ![l] = "returned"]
  /\ UNCHANGED <<lEnabled, lExecutable, lTool, lMax, lToken, lExecs>>
  /\ UNCHANGED <<pvars, svars, ovars>>

\* a run whose messages live in one array shared by all linters
ExecReturnsShared(l) ==
  /\ lpc[l] = "exec"
  /\ lExecutable[l] = "found"
  /\ \E stdout \in ExecStdout(l) :
       lResult' = [q \in LinterIds |->
                     parseMessages(stdout, "default", l, DefaultColumnOffset, lMax).messages]
  /\ outputChannel' = Append(outputChannel, <<l, "output">>)
  /\ lpc' = [lpc EXCEPT ![l] = "returned"]
  /\ UNCHANGED <<lEnabled, lExecutable, lTool, lMax, lToken, lExecs>>
  /\ UNCHANGED <<pvars, svars, ovars>>

\* exec resolves: the output is logged and parsed
ExecReturns(l) ==
  /\ lpc[l] = "exec"
  /\ lExecutable[l] = "found"
  /\ \E stdout \in ExecStdout(l) :
       lResult' = [lResult EXCEPT ![l] =
                     parseMessages(stdout, "default", l, DefaultColumnOffset, lMax).messages]
  /\ outputChannel' = Append(outputChannel, <<l, "output">>)
  /\ lpc' = [lpc EXCEPT ![l] = "returned"]
  /\ UNCHANGED <<lEnabled, lExecutable, lTool, lMax, lToken, lExecs>>
  /\ UNCHANGED <<pvars, svars, ovars>>

LintNext ==
  \E l \in LinterIds : RunStart(l) \/ Cancel(l) \/ ExecFails(l) \/ ExecReturns(l)

(***************************************************************************)
(* RefactorProxy (refactor.ts 10-189).                                      *)
(*                                                                          *)
(* Subprocess output is text over a small alphabet.  On stdout: "S","T"     *)
(* (the two halves of the ready sentinel STARTED), "{" and "}", the member  *)
(* "d" of a response object ("results":[{"diff":...}]), CR and LF.  On      *)
(* stderr the members of an error record: "m" ("message":"boom"), "e"       *)
(* ("message":""), "b" ("traceback":"Tb\nMn", a traceback of two lines),     *)
(* "y" ("type":"ModuleNotFoundError") and "v" ("type":"ValueError").         *)
(***************************************************************************)
\* most calls of the public methods made on one proxy
MaxCalls == 2
\* longest chunk one read of a subprocess stream delivers
MaxChunk == 3

Calls == 1 .. MaxCalls

Lookups == {"add_import", "extract_variable", "extract_method"}

\* the ready sentinel (the literal STARTED of refactor.ts line 111)
Sentinel == <<"S", "T">>

startsWith(s, prefix) == Len(s) >= Len(prefix) /\ SubSeq(s, 1, Len(prefix)) = prefix

Members == {"d", "m", "e", "b", "y", "v"}

\* the white space JSON.parse skips around a value
JsonSpace == {CR, " "}

Undefined == <<>>

\* the last member of ms that is in S, as a sequence of at most one member
LastIn(ms, S) ==
  LET at == {i \in 1 .. Len(ms) : ms[i] \in S}
  IN  IF at = {} THEN <<>> ELSE << ms[CHOOSE i \in at : \A j \in at : j <= i] >>

\* the object a JSON text with the members ms denotes; a field is Undefined
\* or <<its value>>
Object(ms) ==
  [ message   |-> IF LastIn(ms, {"m", "e"}) = <<>> THEN Undefined
                  ELSE IF LastIn(ms, {"m", "e"}) = <<"m">> THEN << <<"b", "o", "o", "m">> >>
                  ELSE << <<>> >>,
    traceback |-> IF LastIn(ms, {"b"}) = <<>> THEN Undefined
                  ELSE << <<"T", "b", LF, "M", "n">> >>,
    type      |-> IF LastIn(ms, {"y", "v"}) = <<>> THEN Undefined
                  ELSE IF LastIn(ms, {"y", "v"}) = <<"y">> THEN <<"ModuleNotFoundError">>
                  ELSE <<"ValueError">>,
    results   |-> IF LastIn(ms, {"d"}) = <<>> THEN Undefined ELSE <<"diff">> ]

\* JSON.parse(text): [ok, value]; ok is FALSE when it raises
JSONparse(text) ==
  LET solid == {i \in 1 .. Len(text) : text[i] \notin JsonSpace}
      lo == CHOOSE i \in solid : \A j \in solid : i <= j
      hi == CHOOSE i \in solid : \A j \in solid : j <= i
  IN  IF /\ solid # {}
         /\ lo < hi /\ text[lo] = "{" /\ text[hi] = "}"
         /\ \A i \in (lo + 1) .. (hi - 1) : text[i] \in Members
      THEN [ok |-> TRUE, value |-> Object(Piece(text, lo + 1, hi - 1))]
      ELSE [ok |-> FALSE, value |-> Object(<<>>)]

\* dataStr.split(/\r?\n/g).filter(line => line.length > 0).map(JSON.parse):
\* [ok, values]; ok is FALSE when a JSON.parse raises
ParseLines(dataStr) ==
  LET lines == splitLines(dataStr, TRUE)
  IN  [ok     |-> \A i \in 1 .. Len(lines) : JSONparse(lines[i]).ok,
       lines  |-> lines,
       values |-> [i \in 1 .. Len(lines) |-> JSONparse(lines[i]).value]]

(***************************************************************************)
(* What the subprocesses print: [pre, post].  pre is printed from the start *)
(* of a subprocess; post is printed once a command line has been written    *)
(* to stdin.  How the text is cut into chunks is free.                      *)
(***************************************************************************)
Started == <<"S", "T", LF>>

Response == <<"{", "d", "}", LF>>

NoText == [pre |-> <<>>, post |-> <<>>]

\* stdout with the sentinel and a response to the command
OutScripts ==
  { [pre |-> Started, post |-> Response],
    [pre |-> <<"S", "T", CR, LF>>, post |-> <<"{", "d", "}", CR, LF>>],
    [pre |-> Started \o Started, post |-> Response],
    [pre |-> Started, post |-> <<"T", LF>> \o Response],
    [pre |-> Started, post |-> <<LF>> \o Response] }

\* stderr with an error record of the startup
StartupErrScripts ==
  { [pre |-> <<"{", "e", "b", "}", LF>>, post |-> <<>>],
    [pre |-> <<"{", "m", "b", "}", LF>>, post |-> <<>>],
    [pre |-> <<"{", "m", "b", "y", "}", LF>>, post |-> <<>>] }

\* stderr with an error record for the command
CommandErrScripts ==
  { [pre |-> <<>>, post |-> <<"{", "m", "b", "}", LF>>],
    [pre |-> <<>>, post |-> <<"{", "b", "}", LF>>] }

\* what a run of the subprocesses prints: it answers the command, or it
\* reports an error at its start or for the command
Scenarios ==
  { [out |-> o, err |-> NoText] : o \in OutScripts }
    \cup { [out |-> [pre |-> Started, post |-> Response], err |-> e] :
             e \in StartupErrScripts \cup CommandErrScripts }
    \cup { [out |-> [pre |-> Started, post |-> <<>>], err |-> e] : e \in CommandErrScripts }
    \cup { [out |-> NoText, err |-> e] : e \in StartupErrScripts \cup {NoText} }

\* the text a stream can deliver now
Available(rest) == IF stdin # <<>> THEN rest.pre \o rest.post ELSE rest.pre

\* the stream after n characters have been delivered
After(rest, n) ==
  [pre |-> Drop(rest.pre, n), post |-> Drop(rest.post, Max0(n - Len(rest.pre)))]

NoReason == [kind |-> "none", text |-> <<>>, from |-> <<>>]

SessionInit ==
  /\ process = 0
  /\ killed = {}
  /\ spawned = 0
  /\ subs = 0
  /\ previousOutData = <<>>
  /\ previousStdErrData = <<>>
  /\ startedSuccessfully = FALSE
  /\ commandResolve = 0
  /\ commandReject = 0
  /\ initialized = 0
  /\ deferred = [c \in Calls |-> "none"]
  /\ cpc = [c \in Calls |-> "new"]
  /\ cval = [c \in Calls |-> Undefined]
  /\ creason = [c \in Calls |-> NoReason]
  /\ stdin = <<>>
  /\ \E sc \in Scenarios : stdoutRest = sc.out /\ stderrRest = sc.err
  /\ uncaught = FALSE
  /\ received = [text |-> <<>>, chunks |-> 0]

SessionIdle ==
  /\ process = 0
  /\ killed = {}
  /\ spawned = 0
  /\ subs = 0
  /\ previousOutData = <<>>
  /\ previousStdErrData = <<>>
  /\ startedSuccessfully = FALSE
  /\ commandResolve = 0
  /\ commandReject = 0
  /\ initialized = 0
  /\ deferred = [c \in Calls |-> "none"]
  /\ cpc = [c \in Calls |-> "off"]
  /\ cval = [c \in Calls |-> Undefined]
  /\ creason = [c \in Calls |-> NoReason]
  /\ stdin = <<>>
  /\ stdoutRest = NoText
  /\ stderrRest = NoText
  /\ uncaught = FALSE
  /\ received = [text |-> <<>>, chunks |-> 0]

(***************************************************************************)
(* The operations of RefactorProxy.                                         *)
(***************************************************************************)
\* the reasons a promise is rejected with
TypeError == [kind |-> "TypeError", text |-> <<>>, from |-> <<>>]

TransportFault == [kind |-> "transport", text |-> <<>>, from |-> <<>>]

\* initialized.resolve()
ResolveInitialized ==
  deferred' = IF deferred[initialized] = "pending"
              THEN [deferred EXCEPT ![initialized] = "resolved"] ELSE deferred

\* initialized.reject(reason): the call that awaits the deferred is the call
\* whose initialize created it
RejectInitialized(reason) ==
  /\ deferred' = IF deferred[initialized] = "pending"
                 THEN [deferred EXCEPT ![initialized] = "rejected"] ELSE deferred
  /\ creason' = IF deferred[initialized] = "pending"
                THEN [creason EXCEPT ![initialized] = reason] ELSE creason
  /\ UNCHANGED cpc

\* _commandReject(reason) with _commandReject assigned
RejectCommand(reason) ==
  /\ cpc' = IF cpc[commandReject] = "cmd"
            THEN [cpc EXCEPT ![commandReject] = "rejected"] ELSE cpc
  /\ creason' = IF cpc[commandReject] = "cmd"
                THEN [creason EXCEPT ![commandReject] = reason] ELSE creason
  /\ UNCHANGED deferred

\* an exception leaves a subscriber callback: it is reported as uncaught, and
\* the observable library may or may not close the subscription
Throws == uncaught' = TRUE /\ subs' \in {subs - 1, subs}

\* a public method that clears the started flag when it starts a subprocess
CallRestarts(c) ==
  /\ cpc[c] = "new"
  /\ \A b \in 1 .. (c - 1) : cpc[b] # "new"
  /\ initialized' = c
  /\ deferred' = [deferred EXCEPT ![c] = "pending"]
  /\ spawned' = spawned + 1
  /\ process' = spawned + 1
  /\ subs' = subs + 1
  /\ cpc' = [cpc EXCEPT ![c] = "init"]
  /\ startedSuccessfully' = FALSE
  /\ UNCHANGED <<killed, previousOutData, previousStdErrData,
                 commandResolve, commandReject, cval, creason, stdin, stdoutRest, stderrRest,
                 uncaught, received>>
  /\ UNCHANGED <<pvars, lvars, ovars>>

\* addImport / extractVariable / extractMethod (46-90) up to the await in
\* sendCommand: the command is built and initialize (101-124) creates the
\* deferred, spawns a subprocess and subscribes to its output
Call(c) ==
  /\ cpc[c] = "new"
  /\ \A b \in 1 .. (c - 1) : cpc[b] # "new"
  /\ initialized' = c
  /\ deferred' = [deferred EXCEPT ![c] = "pending"]
  /\ spawned' = spawned + 1
  /\ process' = spawned + 1
  /\ subs' = subs + 1
  /\ cpc' = [cpc EXCEPT ![c] = "init"]
  /\ UNCHANGED <<killed, previousOutData, previousStdErrData, startedSuccessfully,
                 commandResolve, commandReject, cval, creason, stdin, stdoutRest, stderrRest,
                 uncaught, received>>
  /\ UNCHANGED <<pvars, lvars, ovars>>

\* a sendCommand that does not wait for initialize
ContinueUnawaited(c, lookup) ==
  /\ cpc[c] = "init"
  /\ commandResolve' = c
  /\ commandReject' = c
  /\ received' = [text |-> <<>>, chunks |-> 0]
  /\ cpc' = [cpc EXCEPT ![c] = "cmd"]
  /\ stdin' = Append(stdin, [process |-> process, lookup |-> lookup])
  /\ UNCHANGED <<process, killed, spawned, subs, previousOutData, previousStdErrData,
                 startedSuccessfully, initialized, deferred, cval, creason, stdoutRest,
                 stderrRest, uncaught>>
  /\ UNCHANGED <<pvars, lvars, ovars>>

\* sendCommand after its await (94-98): the continuation is registered and
\* the command line is written to the stdin of _process.  The lookup of the
\* command (add_import, extract_variable or extract_method, by the public
\* method that was called) is drawn here, where it first leaves the call.
Continue(c, lookup) ==
  /\ cpc[c] = "init"
  /\ deferred[c] = "resolved"
  /\ commandResolve' = c
  /\ commandReject' = c
  /\ received' = [text |-> <<>>, chunks |-> 0]
  /\ IF process = 0
     THEN /\ cpc' = [cpc EXCEPT ![c] = "rejected"]
          /\ creason' = [creason EXCEPT ![c] = TypeError]
          /\ UNCHANGED stdin
     ELSE /\ cpc' = [cpc EXCEPT ![c] = "cmd"]
          /\ stdin' = Append(stdin, [process |-> process, lookup |-> lookup])
          /\ UNCHANGED creason
  /\ UNCHANGED <<process, killed, spawned, subs, previousOutData, previousStdErrData,
                 startedSuccessfully, initialized, deferred, cval, stdoutRest,
                 stderrRest, uncaught>>
  /\ UNCHANGED <<pvars, lvars, ovars>>

\* sendCommand when its await of initialize throws
InitFailed(c) ==
  /\ cpc[c] = "init"
  /\ deferred[c] = "rejected"
  /\ cpc' = [cpc EXCEPT ![c] = "rejected"]
  /\ UNCHANGED <<process, killed, spawned, subs, previousOutData, previousStdErrData,
                 startedSuccessfully, commandResolve, commandReject, initialized, deferred,
                 cval, creason, stdin, stdoutRest, stderrRest, uncaught, received>>
  /\ UNCHANGED <<pvars, lvars, ovars>>

\* an onData that parses each chunk on its own
AccumulateNothing(previous, data) == data

\* the text onData and handleStdError parse (173, 129)
Accumulate(previous, data) == previous \o data

\* an onData that delivers the response and leaves the subprocess running
onDataNoDispose(data) ==
  IF commandResolve = 0
  THEN UNCHANGED <<previousOutData, process, killed, cpc, cval, commandResolve, received>>
  ELSE /\ received' = [text |-> received.text \o data, chunks |-> received.chunks + 1]
       /\ UNCHANGED <<process, killed>>
       /\ IF ~ParseLines(Accumulate(previousOutData, data)).ok
          THEN /\ previousOutData' = Accumulate(previousOutData, data)
               /\ UNCHANGED <<cpc, cval, commandResolve>>
          ELSE /\ previousOutData' = <<>>
               /\ cpc' = IF cpc[commandResolve] = "cmd"
                         THEN [cpc EXCEPT ![commandResolve] = "resolved"] ELSE cpc
               /\ cval' = IF cpc[commandResolve] = "cmd"
                          THEN [cval EXCEPT ![commandResolve] =
                                  Take(ParseLines(Accumulate(previousOutData, data)).values, 1)]
                          ELSE cval
               /\ commandResolve' = 0

\* an onData that accumulates the text received while no command is
\* outstanding
onDataBuffersEarly(data) ==
  IF commandResolve = 0
  THEN /\ previousOutData' = Accumulate(previousOutData, data)
       /\ UNCHANGED <<process, killed, cpc, cval, commandResolve, received>>
  ELSE /\ received' = [text |-> received.text \o data, chunks |-> received.chunks + 1]
       /\ IF ~ParseLines(Accumulate(previousOutData, data)).ok
          THEN /\ previousOutData' = Accumulate(previousOutData, data)
               /\ UNCHANGED <<process, killed, cpc, cval, commandResolve>>
          ELSE /\ previousOutData' = <<>>
               /\ process' = 0
               /\ killed' = IF process = 0 THEN killed ELSE killed \cup {process}
               /\ cpc' = IF cpc[commandResolve] = "cmd"
                         THEN [cpc EXCEPT ![commandResolve] = "resolved"] ELSE cpc
               /\ cval' = IF cpc[commandResolve] = "cmd"
                          THEN [cval EXCEPT ![commandResolve] =
                                  Take(ParseLines(Accumulate(previousOutData, data)).values, 1)]
                          ELSE cval
               /\ commandResolve' = 0

\* onData (166-188)
onData(data) ==
  IF commandResolve = 0
  THEN UNCHANGED <<previousOutData, process, killed, cpc, cval, commandResolve, received>>
  ELSE /\ received' = [text |-> received.text \o data, chunks |-> received.chunks + 1]
       /\ IF ~ParseLines(Accumulate(previousOutData, data)).ok
          THEN /\ previousOutData' = Accumulate(previousOutData, data)
               /\ UNCHANGED <<process, killed, cpc, cval, commandResolve>>
          ELSE /\ previousOutData' = <<>>
               /\ process' = 0                                                \* dispose
               /\ killed' = IF process = 0 THEN killed ELSE killed \cup {process}
               /\ cpc' = IF cpc[commandResolve] = "cmd"
                         THEN [cpc EXCEPT ![commandResolve] = "resolved"] ELSE cpc
               /\ cval' = IF cpc[commandResolve] = "cmd"
                          THEN [cval EXCEPT ![commandResolve] =
                                  Take(ParseLines(Accumulate(previousOutData, data)).values, 1)]
                          ELSE cval
               /\ commandResolve' = 0

\* a read of stdout delivers the next n characters (108-116)
Stdout(n) ==
  /\ subs >= 1
  /\ n <= Len(Available(stdoutRest))
  /\ stdoutRest' = After(stdoutRest, n)
  /\ IF ~startedSuccessfully /\ startsWith(Take(Available(stdoutRest), n), Sentinel)
     THEN /\ startedSuccessfully' = TRUE
          /\ ResolveInitialized
          /\ UNCHANGED <<previousOutData, process, killed, cpc, cval, commandResolve, received>>
     ELSE /\ onData(Take(Available(stdoutRest), n))
          /\ UNCHANGED <<startedSuccessfully, deferred>>
  /\ UNCHANGED <<spawned, subs, previousStdErrData, commandReject, initialized, creason,
                 stdin, stderrRest, uncaught>>
  /\ UNCHANGED <<pvars, lvars, ovars>>

\* the text of `undefined` in a template string
UndefinedText == <<"u", "n", "d", "e", "f", "i", "n", "e", "d">>

\* a summary that takes the first line of the traceback
SummaryFirstLine(r) ==
  IF r.message = Undefined \/ r.message[1] = <<>>
  THEN splitLines(r.traceback[1], FALSE)[1]
  ELSE r.message[1]

\* errorResponse[0].message after line 142-144: the message, or the last line
\* of the traceback when the message is no non-empty string
Summary(r) ==
  IF r.message = Undefined \/ r.message[1] = <<>>
  THEN splitLines(r.traceback[1], FALSE)[Len(splitLines(r.traceback[1], FALSE))]
  ELSE r.message[1]

\* errorMessage (145)
ErrorMessage(r) ==
  Summary(r) \o <<LF>> \o (IF r.traceback = Undefined THEN UndefinedText ELSE r.traceback[1])

\* a classification that takes every startup error for a generic one
StartupReasonGeneric(r, line) ==
  [kind |-> "Refactor failed.", text |-> ErrorMessage(r), from |-> line]

\* a classification that reads the error name in the traceback summary
StartupReasonBySummary(r, line) ==
  IF r.type = <<"ModuleNotFoundError">> \/ Summary(r) = <<"M", "n">>
  THEN [kind |-> "Not installed", text |-> <<>>, from |-> line]
  ELSE [kind |-> "Refactor failed.", text |-> ErrorMessage(r), from |-> line]

\* the reason startup is rejected with for the error record r (150-155)
StartupReason(r, line) ==
  IF r.type = <<"ModuleNotFoundError">>
  THEN [kind |-> "Not installed", text |-> <<>>, from |-> line]
  ELSE [kind |-> "Refactor failed.", text |-> ErrorMessage(r), from |-> line]

\* handleStdError (126-157) once the accumulated text has parsed into the
\* records rs (the lines ls)
HandleErrorRecords(rs, ls) ==
  IF rs = <<>>
  THEN Throws /\ UNCHANGED <<cpc, creason, deferred>>      \* errorResponse[0] is undefined
  ELSE IF (rs[1].message = Undefined \/ rs[1].message[1] = <<>>) /\ rs[1].traceback = Undefined
  THEN Throws /\ UNCHANGED <<cpc, creason, deferred>>      \* splitLines(undefined)
  ELSE IF startedSuccessfully
  THEN IF commandReject = 0
       THEN Throws /\ UNCHANGED <<cpc, creason, deferred>> \* _commandReject is undefined
       ELSE /\ RejectCommand([kind |-> "Refactor failed.", text |-> ErrorMessage(rs[1]),
                              from |-> ls[1]])
            /\ UNCHANGED <<uncaught, subs>>
  ELSE /\ RejectInitialized(StartupReason(rs[1], ls[1]))
       /\ UNCHANGED <<uncaught, subs>>

\* handleStdError (126-157)
handleStdError(data) ==
  IF ~ParseLines(Accumulate(previousStdErrData, data)).ok
  THEN /\ previousStdErrData' = Accumulate(previousStdErrData, data)
       /\ UNCHANGED <<cpc, creason, deferred, uncaught, subs>>
  ELSE /\ previousStdErrData' = <<>>
       /\ HandleErrorRecords(ParseLines(Accumulate(previousStdErrData, data)).values,
                             ParseLines(Accumulate(previousStdErrData, data)).lines)

\* a read of stderr delivers the next n characters (116-118)
Stderr(n) ==
  /\ subs >= 1
  /\ n <= Len(Available(stderrRest))
  /\ stderrRest' = After(stderrRest, n)
  /\ handleStdError(Take(Available(stderrRest), n))
  /\ UNCHANGED <<process, killed, spawned, previousOutData, startedSuccessfully,
                 commandResolve, commandReject, initialized, cval, stdin, stdoutRest,
                 received>>
  /\ UNCHANGED <<pvars, lvars, ovars>>

\* handleError (159-164): the observable of a subprocess fails, which ends it
TransportError ==
  /\ subs >= 1
  /\ IF startedSuccessfully
     THEN IF commandReject = 0
          THEN /\ uncaught' = TRUE
               /\ UNCHANGED <<cpc, creason, deferred>>
          ELSE /\ RejectCommand(TransportFault)
               /\ UNCHANGED uncaught
     ELSE /\ RejectInitialized(TransportFault)
          /\ UNCHANGED uncaught
  /\ subs' = subs - 1
  /\ UNCHANGED <<process, killed, spawned, previousOutData, previousStdErrData,
                 startedSuccessfully, commandResolve, commandReject, initialized, cval,
                 stdin, stdoutRest, stderrRest, received>>
  /\ UNCHANGED <<pvars, lvars, ovars>>

(***************************************************************************)
(* The refactor operations (refactor.ts 195-373): checkDocument, the check  *)
(* of the rope module, validateDocumentForRefactor, a fresh RefactorProxy   *)
(* with one command, and extractName / applyImports on its response.        *)
(***************************************************************************)
OpKinds == {"extractVariable", "extractMethod", "addImport"}

\* the lookup of the command the proxy method of an entry point builds
LookupOf(kind) ==
  CASE kind = "extractVariable" -> "extract_variable"
    [] kind = "extractMethod"   -> "extract_method"
    [] kind = "addImport"       -> "add_import"

\* the call made on the proxy of the operation
OpCall == 1

\* what the diff of a response can be: the empty string, a patch that is
\* translated and applied, a patch getTextEditsFromPatch raises on, and a
\* patch doc.applyEdits rejects
Diffs == {"empty", "patch", "untranslatable", "unappliable"}

BufferNotSaved == "Buffer not saved, please save the buffer first!"

RopeNotInstalled == "Module rope not installed"

\* the text of window.showErrorMessage in the catch blocks (319, 370)
FailureNotice(kind) ==
  IF kind = "addImport"
  THEN "Cannot perform addImport using selected element(s)."
  ELSE "Cannot perform refactoring using selected element(s)."

\* the header line of the log entry in the catch blocks (316, 367)
LogHeader(kind) == IF kind = "addImport" THEN "Rope Output" ELSE "Refactor Output"

Pending == [state |-> "pending", value |-> "none", error |-> NoReason]

Resolved(v) == [state |-> "resolved", value |-> v, error |-> NoReason]

Rejected(e) == [state |-> "rejected", value |-> "none", error |-> e]

\* errors raised outside the session
ResponseTypeError == [kind |-> "TypeError", text |-> <<>>, from |-> <<>>]

PatchError == [kind |-> "patch", text |-> <<>>, from |-> <<>>]

ApplyError == [kind |-> "apply", text |-> <<>>, from |-> <<>>]

WriteError == [kind |-> "write", text |-> <<>>, from |-> <<>>]

OpsInit ==
  /\ oKind \in OpKinds
  /\ oDoc \in BOOLEAN
  /\ oModified \in {0, 1}
  /\ oDirty \in BOOLEAN
  /\ oRope \in BOOLEAN
  /\ oWriteOk = TRUE
  /\ oDiff = "empty"
  /\ oLines = <<>>
  /\ oStart = -1
  /\ opc = "start"
  /\ oWrites = 0
  /\ oEdits = 0
  /\ oJumps = <<>>
  /\ oLog = <<>>
  /\ oNotices = <<>>
  /\ oResult = Pending

OpsIdle ==
  /\ oKind = "extractVariable" /\ oDoc = FALSE /\ oModified = 0 /\ oDirty = FALSE /\ oRope = FALSE
  /\ oWriteOk = TRUE /\ oDiff = "empty" /\ oLines = <<>> /\ oStart = -1 /\ opc = "off"
  /\ oWrites = 0 /\ oEdits = 0 /\ oJumps = <<>> /\ oLog = <<>> /\ oNotices = <<>>
  /\ oResult = Pending

\* an entry point that leaves the unsaved buffer to validateDocumentForRefactor
OpCheckDocumentLenient ==
  /\ opc = "start"
  /\ opc' = "checked"
  /\ UNCHANGED <<oNotices, oResult>>
  /\ UNCHANGED <<oIn, oEnv, oWrites, oEdits, oJumps, oLog>>
  /\ UNCHANGED <<pvars, lvars, svars>>

\* checkDocument (195-205) and the return of the entry point when it is false
OpCheckDocument ==
  /\ opc = "start"
  /\ IF ~oDoc
     THEN /\ opc' = "done"
          /\ oResult' = Resolved("undefined")
          /\ UNCHANGED oNotices
     ELSE IF oModified # 0
     THEN /\ oNotices' = Append(oNotices, [level |-> "warning", text |-> BufferNotSaved, detail |-> NoReason])
          /\ opc' = "done"
          /\ oResult' = Resolved("undefined")
     ELSE /\ opc' = "checked"
          /\ UNCHANGED <<oNotices, oResult>>
  /\ UNCHANGED <<oIn, oEnv, oWrites, oEdits, oJumps, oLog>>
  /\ UNCHANGED <<pvars, lvars, svars>>

\* an entry point that does not look at the result of isModuleInstalled
OpCheckRopeIgnored ==
  /\ opc = "checked"
  /\ opc' = "validate"
  /\ UNCHANGED <<oNotices, oResult>>
  /\ UNCHANGED <<oIn, oEnv, oWrites, oEdits, oJumps, oLog>>
  /\ UNCHANGED <<pvars, lvars, svars>>

\* the check of the rope module (224-229, 251-256, 278-283)
OpCheckRope ==
  /\ opc = "checked"
  /\ IF ~oRope
     THEN /\ oNotices' = Append(oNotices, [level |-> "warning", text |-> RopeNotInstalled, detail |-> NoReason])
          /\ opc' = "done"
          /\ oResult' = Resolved("undefined")
     ELSE /\ opc' = "validate"
          /\ UNCHANGED <<oNotices, oResult>>
  /\ UNCHANGED <<oIn, oEnv, oWrites, oEdits, oJumps, oLog>>
  /\ UNCHANGED <<pvars, lvars, svars>>

\* validateDocumentForRefactor (207-217): resolved at once for a document that
\* is not dirty, else the nvim command `write` is issued
OpValidate ==
  /\ opc = "validate"
  /\ IF ~oDirty
     THEN opc' = "proxy" /\ UNCHANGED oWrites
     ELSE opc' = "writing" /\ oWrites' = oWrites + 1
  /\ UNCHANGED <<oIn, oEnv, oEdits, oJumps, oLog, oNotices, oResult>>
  /\ UNCHANGED <<pvars, lvars, svars>>

\* the `write` command completes: the promise of validateDocumentForRefactor
\* resolves, or rejects and with it the promise of the entry point
OpWriteDone ==
  /\ opc = "writing"
  /\ \E ok \in BOOLEAN :
       /\ oWriteOk' = ok
       /\ IF ok
          THEN opc' = "proxy" /\ UNCHANGED oResult
          ELSE opc' = "done" /\ oResult' = Rejected(WriteError)
  /\ UNCHANGED <<oIn, oDiff, oLines, oStart, oWrites, oEdits, oJumps, oLog, oNotices>>
  /\ UNCHANGED <<pvars, lvars, svars>>

\* the callback of validateDocumentForRefactor(doc).then (235-243, 262-270,
\* 290-298): a new RefactorProxy, on which the method of the entry point is
\* called; the subprocess of the proxy prints what a scenario says
OpProxy ==
  /\ opc = "proxy"
  /\ opc' = "session"
  /\ cpc' = [cpc EXCEPT ![OpCall] = "new"]
  /\ \E sc \in Scenarios : stdoutRest' = sc.out /\ stderrRest' = sc.err
  /\ UNCHANGED <<process, killed, spawned, subs, previousOutData, previousStdErrData,
                 startedSuccessfully, commandResolve, commandReject, initialized, deferred,
                 cval, creason, stdin, uncaught, received>>
  /\ UNCHANGED <<oIn, oEnv, oWrites, oEdits, oJumps, oLog, oNotices, oResult>>
  /\ UNCHANGED <<pvars, lvars>>

\* a catch block that shows the error to the user and logs nothing
OpFailShown(error) ==
  /\ oNotices' = Append(oNotices, [level |-> "error", text |-> FailureNotice(oKind),
                                   detail |-> error])
  /\ oResult' = Rejected(error)
  /\ opc' = "done"
  /\ UNCHANGED oLog

\* the catch block of extractName (359-372) and of applyImports (308-321):
\* three lines on the output channel, the notice, and the rejection
OpFail(error) ==
  /\ oLog' = oLog \o << [what |-> "header", header |-> LogHeader(oKind), text |-> NoReason],
                        [what |-> "error", header |-> LogHeader(oKind), text |-> error],
                        [what |-> "blank", header |-> "", text |-> NoReason] >>
  /\ oNotices' = Append(oNotices, [level |-> "error", text |-> FailureNotice(oKind),
                                   detail |-> NoReason])
  /\ oResult' = Rejected(error)
  /\ opc' = "done"

\* most lines of the document after the edits
MaxLines == 2

\* the new name of an extract operation (newvariable / newmethod and the
\* milliseconds, 236 and 263)
NewName == <<"n">>

\* what a line of the document can be
LineTexts == { <<"x">>, <<"n">>, <<"x", "n">> }

\* line.indexOf(word): the index from 0 of the first occurrence, or -1
indexOf(line, word) ==
  LET at == {i \in 0 .. (Len(line) - Len(word)) : SubSeq(line, i + 1, i + Len(word)) = word}
  IN  IF at = {} THEN -1 ELSE CHOOSE i \in at : \A j \in at : i <= j

\* the loop of extractName (339-347) from lineNumber on: newWordPosition,
\* Undefined or <<the position>>
RECURSIVE ScanFrom(_, _)
ScanFrom(lines, lineNumber) ==
  IF lineNumber >= Len(lines) THEN Undefined
  ELSE IF indexOf(lines[lineNumber + 1], NewName) >= 0
  THEN << [line |-> lineNumber, character |-> indexOf(lines[lineNumber + 1], NewName)] >>
  ELSE ScanFrom(lines, lineNumber + 1)

\* extractName after applyEdits (338-358): workspace.jumpTo is called with
\* newWordPosition when the edits changed a line, and the promise resolves
\* with newWordPosition; with no edit nothing is called
Navigate(lines, start) ==
  IF start >= 0
  THEN /\ oJumps' = Append(oJumps, ScanFrom(lines, start))
       /\ oResult' = Resolved(IF ScanFrom(lines, start) = Undefined
                              THEN "undefined" ELSE "position")
  ELSE /\ UNCHANGED oJumps
       /\ oResult' = Resolved("undefined")

\* the promise of the proxy method is rejected: the catch block
OpSessionRejected ==
  /\ opc = "session"
  /\ cpc[OpCall] = "rejected"
  /\ OpFail(creason[OpCall])
  /\ UNCHANGED <<oIn, oEnv, oWrites, oEdits, oJumps>>
  /\ UNCHANGED <<pvars, lvars, svars>>

\* the promise of the proxy method is resolved: response.results[0].diff
\* (238-240, 265-267, 293-295), then extractName (324-358) or applyImports
\* (301-307)
OpResponse ==
  /\ opc = "session"
  /\ cpc[OpCall] = "resolved"
  /\ IF cval[OpCall] = Undefined \/ cval[OpCall][1].results = Undefined
     THEN /\ OpFail(ResponseTypeError)
          /\ UNCHANGED <<oEnv, oEdits, oJumps>>
     ELSE \E d \in Diffs :
            /\ oDiff' = d
            /\ UNCHANGED oWriteOk
            /\ CASE d = "empty" ->
                      /\ oResult' = Resolved(IF oKind = "addImport" THEN "undefined" ELSE "[]")
                      /\ opc' = "done"
                      /\ UNCHANGED <<oLines, oStart, oEdits, oJumps, oLog, oNotices>>
                 [] d = "untranslatable" ->
                      /\ OpFail(PatchError)
                      /\ UNCHANGED <<oLines, oStart, oEdits, oJumps>>
                 [] d = "unappliable" ->
                      /\ OpFail(ApplyError)
                      /\ UNCHANGED <<oLines, oStart, oEdits, oJumps>>
                 [] d = "patch" ->
                      /\ oEdits' = oEdits + 1
                      /\ IF oKind = "addImport"
                         THEN /\ oResult' = Resolved("undefined")
                              /\ UNCHANGED <<oLines, oStart, oJumps>>
                         ELSE /\ oLines' \in BoundedSeq(LineTexts, MaxLines)
                              /\ oStart' \in -1 .. MaxLines
                              /\ Navigate(oLines', oStart')
                      /\ opc' = "done"
                      /\ UNCHANGED <<oLog, oNotices>>
  /\ UNCHANGED <<oIn, oWrites>>
  /\ UNCHANGED <<pvars, lvars, svars>>

\* one operation: the entry point and the session of its proxy
OpsNext ==
  \/ OpCheckDocument
  \/ OpCheckRope
  \/ OpValidate
  \/ OpWriteDone
  \/ OpProxy
  \/ Call(OpCall)
  \/ Continue(OpCall, LookupOf(oKind))
  \/ InitFailed(OpCall)
  \/ \E n \in 1 .. MaxChunk : Stdout(n)
  \/ \E n \in 1 .. MaxChunk : Stderr(n)
  \/ TransportError
  \/ OpResponse
  \/ OpSessionRejected

Next ==
  \/ \E c \in Calls : Call(c)
  \/ \E c \in Calls : \E lookup \in Lookups : Continue(c, lookup)
  \/ \E c \in Calls : InitFailed(c)
  \/ \E n \in 1 .. MaxChunk : Stdout(n)
  \/ \E n \in 1 .. MaxChunk : Stderr(n)
  \/ TransportError

Init == SessionInit /\ ParseIdle /\ LintIdle /\ OpsIdle

Spec == Init /\ [][Next]_vars

InitParse == ParseInit /\ LintIdle /\ SessionIdle /\ OpsIdle

SpecParse == InitParse /\ [][ParseNext]_vars

InitLint == LintInit /\ ParseIdle /\ SessionIdle /\ OpsIdle

SpecLint == InitLint /\ [][LintNext]_vars

InitOps == OpsInit /\ ParseIdle /\ LintIdle /\ SessionIdle

SpecOps == InitOps /\ [][OpsNext]_vars

\* the steps of an operation that are taken when they can be: a promise that
\* settled runs its continuation.  The error callback of the subscription
\* (handleError) is not among them: nothing makes the observable fail.
OpsProgress ==
  \/ OpCheckDocument
  \/ OpCheckRope
  \/ OpValidate
  \/ OpWriteDone
  \/ OpProxy
  \/ Call(OpCall)
  \/ Continue(OpCall, LookupOf(oKind))
  \/ InitFailed(OpCall)
  \/ OpResponse
  \/ OpSessionRejected

\* a stream of the subprocess has text for a subscriber: Stdout(n),
\* respectively Stderr(n), is enabled for some n
StdoutReady == subs >= 1 /\ Available(stdoutRest) # <<>>

StderrReady == subs >= 1 /\ Available(stderrRest) # <<>>

\* a stream with text delivers it to its subscriber.  Every Stdout or Stderr
\* step shortens a finite stream, so weak fairness of these steps is that
\* the stream is again and again without text to deliver.
StreamsDeliver == []<>(~StdoutReady) /\ []<>(~StderrReady)

SpecOpsFair == InitOps /\ [][OpsNext]_vars /\ WF_vars(OpsProgress) /\ StreamsDeliver

(***************************************************************************)
(* Claims about the refactor worker session.                                *)
(***************************************************************************)
IsPrefix(p, t) == Len(p) <= Len(t) /\ SubSeq(t, 1, Len(p)) = p

\* one JSON response line, ended by LF or by CR LF
ResponseLines == { <<"{", "d", "}", LF>>, <<"{", "d", "}", CR, LF>> }

\* the prefixes of the response line that are no complete JSON text
Incomplete == { <<>>, <<"{">>, <<"{", "d">> }

\* the record the response line denotes
ResponseRecord ==
  [message |-> <<>>, traceback |-> <<>>, type |-> <<>>, results |-> <<"diff">>]

\* C1: while the stdout text received since the command was sent is a part of
\* one JSON response line, however the line is cut into chunks, the command
\* does not complete while the accumulated text is not yet JSON-parseable,
\* and it has completed with the record of the line once the text that
\* completes the JSON has been received.
C1_SplitResponseCompletes ==
  \A c \in Calls : \A line \in ResponseLines :
     (commandReject = c /\ IsPrefix(received.text, line) /\ cpc[c] # "rejected") =>
        /\ received.text \in Incomplete => cpc[c] = "cmd" /\ previousOutData = received.text
        /\ received.text \notin Incomplete =>
             cpc[c] = "resolved" /\ cval[c] = <<ResponseRecord>> /\ previousOutData = <<>>

C1_Witness ==
  \E c \in Calls : \E line \in ResponseLines :
     /\ commandReject = c /\ IsPrefix(received.text, line)
     /\ received.chunks >= 2
     /\ cpc[c] = "resolved" /\ cval[c] = <<ResponseRecord>>

\* the calls whose command has been written and is unresolved
InFlight == {c \in Calls : cpc[c] = "cmd"}

\* C2: at most one command is in flight on a session: while a command is
\* unresolved its continuation is the registered one and its command line is
\* the only line written, whatever calls are made on the session.
C2_AtMostOneCommandInFlight ==
  /\ Cardinality(InFlight) <= 1
  /\ \A c \in InFlight : commandResolve = c /\ commandReject = c /\ Len(stdin) = 1

C2_Witness ==
  \E c \in Calls : \E b \in Calls \ {c} :
     cpc[c] = "cmd" /\ cpc[b] = "init" /\ spawned = 2 /\ Len(stdin) = 1

\* the error record of the scenario: an empty message, a traceback whose last
\* line names ModuleNotFoundError, and no type
TypelessRecord == <<"{", "e", "b", "}">>

\* C8 as stated: when stderr delivers the typeless record before the
\* sentinel, startup fails with 'Not installed'.
C8_TypelessRecordIsNotInstalled ==
  \A c \in Calls :
     (deferred[c] = "rejected" /\ creason[c].from = TypelessRecord) =>
        creason[c].kind = "Not installed"

\* C8 as amended: when stderr delivers the typeless record before the
\* sentinel, startup fails with the generic 'Refactor failed.' and the last
\* line of the traceback as message; 'Not installed' is the reason only for a
\* record whose type is "ModuleNotFoundError".
C8_TypelessRecordIsGenericFailure ==
  \A c \in Calls :
     /\ (deferred[c] = "rejected" /\ creason[c].from = TypelessRecord) =>
          /\ creason[c].kind = "Refactor failed."
          /\ creason[c].text = <<"M", "n", LF, "T", "b", LF, "M", "n">>
     /\ (deferred[c] = "rejected" /\ creason[c].kind = "Not installed") =>
          creason[c].from = <<"{", "m", "b", "y", "}">>

C8_Witness ==
  \E c \in Calls :
     /\ cpc[c] = "rejected" /\ deferred[c] = "rejected" /\ ~startedSuccessfully
     /\ creason[c].from = TypelessRecord /\ creason[c].kind = "Refactor failed."

(***************************************************************************)
(* Claims about the line parser and the diagnostic pipeline.                *)
(***************************************************************************)
Max(a, b) == IF a >= b THEN a ELSE b

\* the message parseLine is expected to return for the fields of a line
Expected(f, column) ==
  [code |-> f.code, message |-> f.message, column |-> column, line |-> f.line.val,
   type |-> f.type, provider |-> "pylint"]

\* the parses of the lines of the batch that succeed, in order
RECURSIVE Successes(_, _, _)
Successes(ls, regex, offset) ==
  IF ls = <<>> THEN <<>>
  ELSE parseLine(Head(ls), regex, "pylint", offset).msg \o Successes(Tail(ls), regex, offset)

\* C3: parseMessages never returns more messages than the configured maximum
\* (including a maximum of 0).
C3_NeverMoreThanMaximum ==
  (pMode = "batch" /\ pDone) => Len(pResult.messages) <= pMax

\* C5: the returned sequence is the successful parses of all the lines, in
\* order, up to the maximum count; lines that do not match or that raise are
\* skipped and the lines after them are still processed.
C5_SuccessfulParsesUpToMaximum ==
  (pMode = "batch" /\ pDone) =>
     /\ pResult.messages = Take(Successes(pLines, pRegex, pOffset), pMax)
     /\ (pRegex = "invalid" => pResult.messages = <<>>)

\* C5 for a maximum of at least 1: what remains of the claim once the
\* maximum of 0 (C3) is set aside.
C5_HoldsForPositiveMaximum ==
  (pMode = "batch" /\ pDone /\ pMax >= 1) =>
     /\ pResult.messages = Take(Successes(pLines, pRegex, pOffset), pMax)
     /\ (pRegex = "invalid" => pResult.messages = <<>> /\ Len(pResult.failed) = Len(splitLines(Join(pLines), FALSE)))

\* C6: for a matching line with a positive column c and any column offset,
\* the parsed column is max(c - offset, 0), and line, type, code and message
\* are the fields of the line.
C6_PositiveColumnMinusOffsetClamped ==
  (pMode = "line" /\ pDone /\ pFields.column.val > 0) =>
     pResult.messages = << Expected(pFields, Max(pFields.column.val - pOffset, 0)) >>

\* C7: for a matching line whose raw column is zero or negative, the parsed
\* column is 0 whatever the column offset is, and the other fields are those
\* of the line.
C7_NonPositiveColumnIsZero ==
  (pMode = "line" /\ pDone /\ pFields.column.val <= 0) =>
     pResult.messages = << Expected(pFields, 0) >>

\* the line 12,-1,Error,E501:line too long
C7_ScenarioFields ==
  [prefix |-> <<>>, line |-> [txt |-> <<"1", "2">>, val |-> 12],
   column |-> [txt |-> <<"-", "1">>, val |-> 0 - 1],
   type |-> <<"E", "r", "r", "o", "r">>, code |-> <<"E", "5", "0", "1">>,
   message |-> <<"l", "i", "n", "e", " ", "t", "o", "o", " ", "l", "o", "n", "g">>,
   tail |-> <<>>]

C7_Witness ==
  /\ pMode = "line" /\ pDone /\ pOffset = 0 /\ pFields = C7_ScenarioFields
  /\ Format(pFields) = <<"1", "2", ",", "-", "1", ",", "E", "r", "r", "o", "r", ",",
                         "E", "5", "0", "1", ":",
                         "l", "i", "n", "e", " ", "t", "o", "o", " ", "l", "o", "n", "g">>
  /\ pResult.messages =
       << [line |-> 12, column |-> 0, type |-> <<"E", "r", "r", "o", "r">>,
           code |-> <<"E", "5", "0", "1">>,
           message |-> <<"l", "i", "n", "e", " ", "t", "o", "o", " ", "l", "o", "n", "g">>,
           provider |-> "pylint"] >>

\* C4: when exec fails because the executable does not exist, run logs the
\* failure and returns an empty sequence; it never throws to its caller.
C4_ExecFailureReturnsEmpty ==
  \A l \in LinterIds :
     /\ lpc[l] # "threw"
     /\ (lpc[l] = "returned" /\ lEnabled[l] /\ lExecutable[l] = "missing") =>
          /\ lResult[l] = <<>>
          /\ \E i \in 1 .. Len(outputChannel) : outputChannel[i] = <<l, "failed">>

C4_Witness ==
  \E l \in LinterIds :
     lpc[l] = "returned" /\ lEnabled[l] /\ lExecutable[l] = "missing" /\ lExecs[l] = 1

\* C9: with linters running concurrently in any interleaving, a run whose own
\* executable exists and whose own token is not cancelled returns what it
\* returns alone, whatever failure or cancellation the other runs meet.
C9_OtherRunsDoNotInterfere ==
  \A l \in LinterIds :
     (lpc[l] = "returned" /\ lEnabled[l] /\ lExecutable[l] = "found" /\ ~lToken[l]) =>
        lResult[l] =
          parseMessages(Join(lTool[l]), "default", l, DefaultColumnOffset, lMax).messages

C9_Witness ==
  \E l \in LinterIds : \E q \in LinterIds \ {l} :
     /\ lpc[l] = "returned" /\ lEnabled[l] /\ lExecutable[l] = "found" /\ ~lToken[l]
     /\ Len(lResult[l]) = 1
     /\ lpc[q] = "returned" /\ lEnabled[q] /\ lResult[q] = <<>>
     /\ (lExecutable[q] = "missing" \/ lToken[q])
     /\ outputChannel[Len(outputChannel)] = <<l, "output">>

\* C10: when the tool is disabled for the document, run returns an empty
\* sequence and exec is never called in that run.
C10_DisabledSpawnsNothing ==
  \A l \in LinterIds :
     ~lEnabled[l] =>
        /\ lExecs[l] = 0
        /\ lpc[l] \in {"idle", "returned"}
        /\ lResult[l] = <<>>
        /\ \A i \in 1 .. Len(outputChannel) : outputChannel[i][1] # l

C10_Witness ==
  \E l \in LinterIds : \E q \in LinterIds \ {l} :
     ~lEnabled[l] /\ lpc[l] = "returned" /\ lEnabled[q] /\ lExecs[q] = 1

(***************************************************************************)
(* Claims about the refactor operations.                                    *)
(***************************************************************************)
Warning(text) == [level |-> "warning", text |-> text, detail |-> NoReason]

\* C11 as stated: an operation invoked on a document whose buffer has unsaved
\* modifications does not abort: it does not end before the buffer has been
\* written, and the session is spawned only after the write.
C11_UnsavedBufferIsWrittenFirst ==
  (oDoc /\ oModified # 0 /\ oRope) =>
     /\ opc = "done" => oWrites >= 1
     /\ spawned >= 1 => oWrites >= 1

\* C11 as amended: an operation invoked on a document whose buffer option
\* `modified` is set ends with the warning 'Buffer not saved, please save the
\* buffer first!', without a write and without a session; for an unmodified
\* buffer whose document is dirty the session is spawned, and the command
\* sent, only after the one `write` has completed successfully.
C11_UnsavedBufferAborts ==
  /\ (oDoc /\ oModified # 0) =>
       /\ spawned = 0 /\ stdin = <<>> /\ oWrites = 0 /\ oEdits = 0
       /\ opc = "done" => oNotices = <<Warning(BufferNotSaved)>> /\ oResult = Resolved("undefined")
  /\ oDirty =>
       /\ oWrites <= 1
       /\ opc = "writing" => spawned = 0 /\ stdin = <<>> /\ cpc[OpCall] = "off"
       /\ (spawned >= 1 \/ cpc[OpCall] # "off") => oWrites = 1 /\ oWriteOk /\ opc \in {"session", "done"}

C11_Witness ==
  /\ oDoc /\ oModified # 0 /\ oDirty /\ oRope
  /\ opc = "done" /\ oNotices = <<Warning(BufferNotSaved)>> /\ oWrites = 0

\* C12: when the rope module is not importable no session is created in the
\* operation: no subprocess is spawned, nothing is written to a subprocess,
\* the document is neither written nor edited; the operation ends with the
\* warning 'Module rope not installed'.
C12_MissingLibraryCreatesNoSession ==
  ~oRope =>
     /\ spawned = 0 /\ process = 0 /\ stdin = <<>> /\ cpc[OpCall] = "off"
     /\ oWrites = 0 /\ oEdits = 0
     /\ (opc = "done" /\ oDoc /\ oModified = 0) =>
          oNotices = <<Warning(RopeNotInstalled)>> /\ oResult = Resolved("undefined")

C12_Witness ==
  /\ ~oRope /\ oDoc /\ oModified = 0 /\ oDirty /\ opc = "done"
  /\ oNotices = <<Warning(RopeNotInstalled)>> /\ spawned = 0

\* the lines of the log that carry the error e
ErrorLines(e) == {i \in 1 .. Len(oLog) : oLog[i].what = "error" /\ oLog[i].text = e}

\* the operation failed with e the way the claim says: rejected with e, one
\* log entry with the whole of e, one notice with the fixed text and no detail
FailedWith(e) ==
  /\ oResult = Rejected(e)
  /\ Cardinality(ErrorLines(e)) = 1
  /\ Cardinality({i \in 1 .. Len(oLog) : oLog[i].what = "error"}) = 1
  /\ Cardinality({i \in 1 .. Len(oLog) : oLog[i].what = "header"}) = 1
  /\ oNotices = << [level |-> "error", text |-> FailureNotice(oKind), detail |-> NoReason] >>

\* C13: when the session rejects the command (its startup included), or the
\* diff cannot be translated or applied, the operation is rejected with the
\* error, one log entry with the whole error text has been appended, and the
\* notice is the fixed text of the entry point, without the error's text.
C13_FailureIsLoggedAndNoticeIsGeneric ==
  /\ (opc = "done" /\ cpc[OpCall] = "rejected") => FailedWith(creason[OpCall])
  /\ (opc = "done" /\ cpc[OpCall] = "resolved" /\ oDiff = "untranslatable") =>
        FailedWith(PatchError) /\ oEdits = 0
  /\ (opc = "done" /\ cpc[OpCall] = "resolved" /\ oDiff = "unappliable") =>
        FailedWith(ApplyError) /\ oEdits = 0

C13_Witness ==
  /\ opc = "done" /\ cpc[OpCall] = "rejected"
  /\ creason[OpCall].kind = "Refactor failed." /\ creason[OpCall].text # <<>>
  /\ FailedWith(creason[OpCall])

\* C14 as stated: a startup failure classified as dependency-missing shows the
\* user a notice that differs from the notice of a generic failure.
C14_DependencyMissingHasOwnNotice ==
  (opc = "done" /\ oResult.state = "rejected" /\ oResult.error.kind = "Not installed") =>
     \E i \in 1 .. Len(oNotices) : oNotices[i].text \notin {FailureNotice(k) : k \in OpKinds}

\* C15: the command line is written to the stdin of the subprocess only after
\* the sentinel has been received on the stdout of that subprocess, in a step
\* of the call whose startup was resolved; a call whose startup has been
\* rejected never writes a command line.
C15_CommandOnlyAfterSentinel ==
  /\ [](/\ deferred[OpCall] = "rejected" => stdin = <<>> /\ cpc[OpCall] \in {"init", "rejected"}
        /\ stdin # <<>> => startedSuccessfully /\ deferred[OpCall] = "resolved")
  /\ [][stdin' # stdin =>
          /\ startedSuccessfully /\ deferred[OpCall] = "resolved"
          /\ spawned = 1 /\ process = 1
          /\ stdin = <<>>
          /\ stdin' = << [process |-> 1, lookup |-> LookupOf(oKind)] >>]_vars

C15_Witness ==
  /\ stdin = << [process |-> 1, lookup |-> LookupOf(oKind)] >>
  /\ startedSuccessfully /\ cpc[OpCall] = "cmd"

\* the stdout text received since the command was sent parses into at least
\* one record
ResponseParsed ==
  /\ received.chunks >= 1
  /\ ParseLines(received.text).ok
  /\ ParseLines(received.text).values # <<>>

\* C16: once the stdout accumulated for the command parses into records, the
\* buffer is empty, the caller has been resolved with the first record (the
\* record with the diff for the response line of the scenario), the
\* subprocess has been killed and the proxy holds no process; afterwards no
\* step changes the result delivered.
C16_ParsedResponseIsDeliveredOnce ==
  /\ []((commandReject = OpCall /\ cpc[OpCall] # "rejected" /\ ResponseParsed) =>
          /\ cpc[OpCall] = "resolved"
          /\ cval[OpCall] = <<ParseLines(received.text).values[1]>>
          /\ previousOutData = <<>>
          /\ commandResolve = 0
          /\ process = 0 /\ killed = {1}
          /\ startsWith(received.text, <<"{", "d", "}">>) => cval[OpCall] = <<ResponseRecord>>)
  /\ [][cpc[OpCall] = "resolved" =>
          /\ cpc'[OpCall] = "resolved" /\ cval'[OpCall] = cval[OpCall]
          /\ previousOutData' = <<>> /\ process' = 0 /\ killed' = killed]_vars

\* the response has been delivered and the rest of stdout, the line
\* terminator, was received after it
C16_Witness ==
  /\ cpc[OpCall] = "resolved" /\ cval[OpCall] = <<ResponseRecord>>
  /\ received.text = <<"{", "d", "}">>
  /\ stdoutRest = NoText
  /\ killed = {1} /\ process = 0

\* C17 as stated: once the command or the startup of a session that spawned a
\* subprocess has been rejected, the subprocess has been killed and the proxy
\* holds no process.
C17_RejectedSessionIsDisposed ==
  (spawned >= 1 /\ cpc[OpCall] = "rejected" /\ opc = "done") =>
     process = 0 /\ killed = 1 .. spawned

(***************************************************************************)
(* Claims about the error paths of the session.                             *)
(***************************************************************************)
StreamLength(rest) == Len(rest.pre) + Len(rest.post)

\* a step in which a chunk of stderr is handled
StderrStep == stderrRest' # stderrRest

\* the chunk handled in that step, and the text accumulated with it
ErrTaken == Take(Available(stderrRest), StreamLength(stderrRest) - StreamLength(stderrRest'))

ErrAccumulated == previousStdErrData \o ErrTaken

\* the traceback of every error record of the scenarios and its lines
TracebackText == <<"T", "b", LF, "M", "n">>

FirstLine == <<"T", "b">>

LastLine == <<"M", "n">>

\* r is an error record with a traceback
ErrorRecord(r) == r.traceback = <<TracebackText>>

HasMessage(r) == r.message # Undefined /\ r.message[1] # <<>>

\* C18: while startup is pending (no sentinel yet), a stderr chunk that leaves
\* the accumulated text unparseable is only accumulated: nothing is rejected.
\* A chunk with which the accumulated text parses into error records empties
\* the buffer and rejects startup: with 'Not installed' exactly when the type
\* of the first record is "ModuleNotFoundError", and else with 'Refactor
\* failed.' and the text of message, line feed, traceback.
C18_StartupErrorIsClassifiedByType ==
  [][\A c \in Calls :
       (StderrStep /\ initialized = c /\ deferred[c] = "pending" /\ ~startedSuccessfully) =>
          IF ~ParseLines(ErrAccumulated).ok
          THEN /\ previousStdErrData' = ErrAccumulated
               /\ deferred' = deferred /\ cpc' = cpc /\ creason' = creason
          ELSE /\ previousStdErrData' = <<>>
               /\ (ParseLines(ErrAccumulated).values # <<>>
                     /\ ErrorRecord(ParseLines(ErrAccumulated).values[1])) =>
                    /\ deferred'[c] = "rejected"
                    /\ creason'[c].kind =
                         IF ParseLines(ErrAccumulated).values[1].type = <<"ModuleNotFoundError">>
                         THEN "Not installed" ELSE "Refactor failed."
                    /\ creason'[c].kind = "Refactor failed." =>
                         creason'[c].text =
                           (IF HasMessage(ParseLines(ErrAccumulated).values[1])
                            THEN ParseLines(ErrAccumulated).values[1].message[1]
                            ELSE LastLine) \o <<LF>> \o TracebackText]_vars

C18_Witness ==
  \E c \in Calls :
     /\ deferred[c] = "rejected" /\ creason[c].kind = "Not installed"
     /\ creason[c].from = <<"{", "m", "b", "y", "}">>
     /\ previousStdErrData = <<>> /\ ~startedSuccessfully

\* the record of the scenarios that has a traceback and no message
MessagelessRecord == <<"{", "b", "}">>

\* C19 as stated: a command rejected for the record without a message is
\* rejected with the first line of the traceback, a line feed and the
\* traceback.
C19_SummaryIsFirstTracebackLine ==
  \A c \in Calls :
     (cpc[c] = "rejected" /\ deferred[c] = "resolved" /\ creason[c].from = MessagelessRecord) =>
        creason[c].text = FirstLine \o <<LF>> \o TracebackText

\* C19 as amended: after the sentinel, a stderr chunk with which the
\* accumulated text parses into error records rejects the outstanding command
\* with 'Refactor failed.' and the text of message, line feed, traceback,
\* where the message of a record without a non-empty message is the last line
\* of the traceback.
C19_SummaryIsLastTracebackLine ==
  [][\A c \in Calls :
       (/\ StderrStep /\ startedSuccessfully /\ commandReject = c /\ cpc[c] = "cmd"
        /\ ParseLines(ErrAccumulated).ok
        /\ ParseLines(ErrAccumulated).values # <<>>
        /\ ErrorRecord(ParseLines(ErrAccumulated).values[1])) =>
          /\ cpc'[c] = "rejected"
          /\ previousStdErrData' = <<>>
          /\ creason'[c] =
               [kind |-> "Refactor failed.",
                text |-> (IF HasMessage(ParseLines(ErrAccumulated).values[1])
                          THEN ParseLines(ErrAccumulated).values[1].message[1]
                          ELSE LastLine) \o <<LF>> \o TracebackText,
                from |-> ParseLines(ErrAccumulated).lines[1]]]_vars

C19_Witness ==
  \E c \in Calls :
     /\ cpc[c] = "rejected" /\ deferred[c] = "resolved"
     /\ creason[c].from = MessagelessRecord
     /\ creason[c].text = LastLine \o <<LF>> \o TracebackText

\* a step in which the error callback of the subscription runs
TransportStep == subs' = subs - 1 /\ stdoutRest' = stdoutRest /\ stderrRest' = stderrRest

\* C20 as stated: a transport error rejects the outstanding command if there
\* is one and else the pending startup, and its handler raises nothing,
\* whenever the error arrives.
C20_TransportErrorAlwaysHandled ==
  [][TransportStep =>
       /\ uncaught' = uncaught
       /\ cpc[OpCall] = "cmd" =>
            cpc'[OpCall] = "rejected" /\ creason'[OpCall] = TransportFault
       /\ (cpc[OpCall] = "init" /\ deferred[OpCall] = "pending") =>
            deferred'[OpCall] = "rejected" /\ creason'[OpCall] = TransportFault]_vars

(***************************************************************************)
(* Claims about the stdout of the session.                                  *)
(***************************************************************************)
\* a step in which a chunk of stdout is handled
StdoutStep ==
  /\ StreamLength(stdoutRest') < StreamLength(stdoutRest)
  /\ stderrRest' = stderrRest

\* the chunk handled in that step
OutTaken == Take(Available(stdoutRest), StreamLength(stdoutRest) - StreamLength(stdoutRest'))

\* the step that takes a chunk for the ready sentinel
SentinelStep == StdoutStep /\ ~startedSuccessfully /\ startedSuccessfully'

\* C21 as stated: a stdout chunk received while no command is outstanding
\* (before the sentinel, or after it and before the command is sent) is
\* appended to the stdout accumulation buffer and nothing is delivered.
C21_EarlyStdoutIsBuffered ==
  [][(StdoutStep /\ ~SentinelStep /\ commandResolve = 0) =>
       /\ previousOutData' = previousOutData \o OutTaken
       /\ cpc' = cpc /\ cval' = cval]_vars

\* C21 as amended: a stdout chunk received while no command is outstanding is
\* discarded: the accumulation buffer is empty and stays empty, no call is
\* resolved or rejected, no value is delivered and the subprocess is not
\* killed.
C21_EarlyStdoutIsDiscarded ==
  [][(StdoutStep /\ commandResolve = 0) =>
       /\ previousOutData = <<>> /\ previousOutData' = <<>>
       /\ cpc' = cpc /\ cval' = cval /\ creason' = creason
       /\ commandResolve' = 0
       /\ process' = process /\ killed' = killed]_vars

\* the first character of the sentinel line has been received in a chunk of
\* its own, before the sentinel was recognised, and nothing is buffered
C21_Witness ==
  /\ cpc[OpCall] = "init" /\ ~startedSuccessfully /\ commandResolve = 0
  /\ stdoutRest.pre = <<"T", LF>>
  /\ previousOutData = <<>>

(***************************************************************************)
(* Claims about the navigation of the extract operations.                   *)
(***************************************************************************)
\* the numbers (from 0) of the lines from the first changed line on that
\* contain the new name
Occurrences == {k \in oStart .. (Len(oLines) - 1) : indexOf(oLines[k + 1], NewName) >= 0}

FirstOccurrence == CHOOSE k \in Occurrences : \A j \in Occurrences : k <= j

\* an extract operation has applied edits that change a line
Extracted ==
  /\ opc = "done" /\ oKind # "addImport" /\ oDiff = "patch" /\ oEdits = 1
  /\ oStart >= 0

\* C22 as stated: after the edits of an extract operation are applied, one
\* navigation call moves the cursor to the first occurrence of the new name
\* at or after the first changed line; when no such line contains the name,
\* no navigation call is made; the operation succeeds in both cases.
C22_NoNavigationWhenNotFound ==
  Extracted =>
     /\ oResult.state = "resolved"
     /\ IF Occurrences # {}
        THEN oJumps = << << [line |-> FirstOccurrence,
                             character |-> indexOf(oLines[FirstOccurrence + 1], NewName)] >> >>
        ELSE oJumps = <<>>

\* the part of C22 that holds: when a line from the first changed line on
\* contains the new name, the one navigation call goes to its first
\* occurrence
C22_FoundCaseJumpsToFirstOccurrence ==
  (Extracted /\ Occurrences # {}) =>
     /\ oResult = Resolved("position")
     /\ oJumps = << << [line |-> FirstOccurrence,
                        character |-> indexOf(oLines[FirstOccurrence + 1], NewName)] >> >>

\* what the code does when no such line contains the name: workspace.jumpTo
\* is called once, without a position
C22_NotFoundCaseJumpsWithoutPosition ==
  (Extracted /\ Occurrences = {}) =>
     oResult = Resolved("undefined") /\ oJumps = << Undefined >>

(***************************************************************************)
(* Claims about what completes a command.                                   *)
(***************************************************************************)
\* text is made of line terminators (LF, CR LF) alone: each of its lines is
\* empty
OnlyLineTerminators(text) == text # <<>> /\ splitLines(text, TRUE) = <<>>

\* C23 as stated: a stdout chunk handled while a command is outstanding
\* resolves the command only with a record, parsed from a non-empty line; a
\* chunk of line terminators alone completes nothing: no call changes its
\* position, no value is delivered and the subprocess is neither dropped nor
\* killed.
C23_BlankChunkCompletesNothing ==
  [][(StdoutStep /\ commandResolve = OpCall /\ cpc[OpCall] = "cmd") =>
       /\ cpc'[OpCall] = "resolved" =>
            /\ cval'[OpCall] # Undefined
            /\ \E i \in 1 .. Len(ParseLines(previousOutData \o OutTaken).lines) :
                 /\ ParseLines(previousOutData \o OutTaken).lines[i] # <<>>
                 /\ cval'[OpCall] = <<ParseLines(previousOutData \o OutTaken).values[i]>>
       /\ OnlyLineTerminators(OutTaken) =>
            /\ cpc' = cpc /\ cval' = cval
            /\ process' = process /\ killed' = killed]_vars

\* what the code does with a chunk of line terminators alone on an empty
\* buffer: the command is resolved with undefined and the subprocess killed
C23_BlankChunkResolvesWithUndefined ==
  [][(/\ StdoutStep /\ commandResolve = OpCall /\ cpc[OpCall] = "cmd"
      /\ previousOutData = <<>> /\ OnlyLineTerminators(OutTaken)) =>
       /\ cpc'[OpCall] = "resolved" /\ cval'[OpCall] = Undefined
       /\ process' = 0 /\ killed' = {1}
       /\ commandResolve' = 0]_vars

(***************************************************************************)
(* Claims about what the session eventually does.                           *)
(***************************************************************************)
\* the subprocess of the operation is running, nothing of its stdout has
\* been recognised yet, and the next text of its stdout is the sentinel line
SentinelEmitted ==
  /\ cpc[OpCall] = "init" /\ subs >= 1
  /\ ~startedSuccessfully /\ deferred[OpCall] = "pending"
  /\ \E o \in OutScripts : stdoutRest = o

\* C24 as stated: once the subprocess has the sentinel line on its stdout,
\* startup is eventually settled (resolved, or rejected by an error that
\* came first), however stdout is cut into chunks.
C24_SentinelEventuallyResolvesStartup ==
  SentinelEmitted ~> (deferred[OpCall] # "pending")

\* what the code does: the sentinel is recognised only at the start of a
\* chunk, so a sentinel cut in two is never recognised, and the chunk
\* it is recognised in is not handed to onData
C24_SentinelOnlyAtChunkStart ==
  [][(~startedSuccessfully /\ startedSuccessfully') =>
       /\ StdoutStep /\ startsWith(OutTaken, Sentinel)
       /\ previousOutData' = previousOutData /\ received' = received]_vars

\* a complete line of stdout that is no JSON text
TextLine == <<"T", LF>>

\* the command has been written and the subprocess answers it with a
\* complete JSON response line (after a line of text or an empty line, in
\* some scenarios)
ResponseWritten ==
  /\ cpc[OpCall] = "cmd" /\ subs >= 1
  /\ \E o \in OutScripts : stdoutRest.post = o.post

Settled == cpc[OpCall] \in {"resolved", "rejected"}

\* C25 as stated: once the command is outstanding and the subprocess writes
\* a complete JSON response line, the command is eventually resolved or
\* rejected, also when a complete line that is no JSON was received before
\* the response.
C25_ResponseEventuallySettlesCommand ==
  ResponseWritten ~> Settled

\* what the code does with a line that is no JSON: once it heads the
\* buffer, every stdout chunk is appended behind it and the command stays
\* outstanding
C25_TextLineStaysInBuffer ==
  [][(StdoutStep /\ cpc[OpCall] = "cmd" /\ startsWith(previousOutData, TextLine)) =>
       /\ cpc'[OpCall] = "cmd"
       /\ previousOutData' = previousOutData \o OutTaken]_vars

\* the command is outstanding with all of stdout received and the response
\* line behind the line of text in the buffer
C25_Stuck ==
  /\ cpc[OpCall] = "cmd" /\ stdoutRest = NoText /\ stderrRest = NoText
  /\ previousOutData = TextLine \o Response

\* without such a line the claim holds: a command that is outstanding with
\* an empty buffer, and whose remaining stdout is the response line (behind
\* at most the end of the sentinel line), is eventually resolved or rejected
C25_ResponseAloneSettlesCommand ==
  (/\ cpc[OpCall] = "cmd" /\ subs >= 1 /\ previousOutData = <<>>
   /\ stdoutRest.pre \in {<<>>, <<LF>>, <<CR, LF>>}
   /\ stdoutRest.post \in ResponseLines
   /\ stderrRest = NoText) ~> Settled

====
